---- MODULE Spec2Model ----
(***************************************************************************)
(* A model of pycall's CallFile (src/pycall/callfile.py): the descriptor,  *)
(* its validation and rendering, the local materialisation (writefile),    *)
(* the local dispatch (spool) and the remote dispatch (remote_spool).      *)
(*                                                                         *)
(* Python values are written as strings; None is the string "None".  The   *)
(* local and the remote file systems are functions from paths <<dir,name>> *)
(* to file records.  Each method is a sequence of steps, one per system or *)
(* library call that an outside observer can see, and pc is the position   *)
(* of the single calling thread.                                           *)
(***************************************************************************)
EXTENDS Integers, Sequences, FiniteSets, TLC

\* ------------------------------------------------------------------ bounds

\* How many method invocations one behaviour makes on the descriptor.
MaxCalls == 1

\* ------------------------------------------------------------ Python values

None == "None"

\* Python's truth test on the values the model uses: None, the empty
\* string, False and the integer 0 are false, everything else is true.
Falsy == {None, "", "False", "int:0"}

Truthy(v) == v \notin Falsy

\* a or b
PyOr(a, b) == IF Truthy(a) THEN a ELSE b

\* --------------------------------------------------------------- the host

DEFAULT_SPOOL_DIR == "/var/spool/asterisk/outgoing"

\* Directories the caller may name as spool_dir; "/nodir" never exists.
SpoolDirArgs == {None, "/spool", "/nodir"}

\* mkstemp(suffix='.call'): the path it returns.
MkstempDir == "/tmp"
MkstempName == "tmpA.call"

FileNameArgs == {None, "my.call"}
TempDirArgs == {None, "/work"}

LocalDirs == {MkstempDir, "/work", "/spool", "/nodir", DEFAULT_SPOOL_DIR}
FileNames == {MkstempName, "my.call"}
Paths == LocalDirs \X FileNames

\* The password database of the local host: getpwnam(name)[2], [3].
LocalUsers == {"asterisk"}
Passwd(name) == IF name = "asterisk" THEN <<100, 101>> ELSE <<0, 0>>
UserArgs == {None, "asterisk", "ghost"}

\* The owner of a file the calling process creates, locally and (for the
\* login user) on the remote host.
ProcessOwner == <<0, 0>>
RemoteLoginOwner == <<500, 500>>

\* uid and gid arguments of remote_spool.
UidArgs == {0, 1000}
GidArgs == {1000}

\* A file record: content is the text as a sequence of lines and "\n"
\* separators, owner is <<uid, gid>>, mtime is the access/modification
\* time: "now" for the clock value a write stamps, else a timestamp.
NoFile == [exists |-> FALSE, content |-> <<>>, owner |-> <<0, 0>>, mtime |-> ""]

\* A file left at the temporary path by an earlier run: other, longer content.
StaleFile ==
    [exists |-> TRUE,
     content |-> <<"Channel: SIP/old", "\n", "Context: old", "\n", "Extension: 1",
                   "\n", "Priority: 1", "\n", "Archive: yes", "\n", "Set: a=b">>,
     owner |-> <<7, 7>>, mtime |-> "946684800.0"]

\* time arguments of spool: None, the integer 0, the empty string, a string
\* that is no datetime, two datetimes, and a datetime mktime cannot represent.
Datetimes == {"datetime(2030,1,1)", "datetime(2031,1,1)", "datetime(1,1,1)"}
TimeArgs == {None, "int:0", "", "noon"} \cup Datetimes

\* Only datetime objects have a timetuple() method (AttributeError otherwise).
HasTimetuple(t) == t \in Datetimes

\* mktime raises OverflowError (or ValueError) outside the platform's range.
MktimeInRange(t) == t \in {"datetime(2030,1,1)", "datetime(2031,1,1)"}

\* mktime(t.timetuple()) for a datetime in range.
Mktime(t) == IF t = "datetime(2030,1,1)" THEN "1893456000.0" ELSE "1924992000.0"

\* passwd and pkeypath arguments of remote_spool.
PasswdArgs == {None, "", "secret"}
PkeyArgs == {None, "", "/root/.ssh/id_rsa"}

\* ------------------------------------------------------- the collaborators

\* call objects: a non-Call object, a Call that is not valid, valid Calls.
CallArgs ==
    { [isCall |-> FALSE, valid |-> FALSE, lines |-> <<>>],
      [isCall |-> TRUE, valid |-> FALSE, lines |-> <<"Channel: ">>],
      [isCall |-> TRUE, valid |-> TRUE, lines |-> <<"Channel: Local/5551234">>],
      [isCall |-> TRUE, valid |-> TRUE,
       lines |-> <<"Channel: Local/5551234", "WaitTime: 30">>] }

\* action objects: an Application (an Action), a Context, something else.
ActionArgs ==
    { [class |-> "Action", lines |-> <<"Application: Playback", "Data: hello-world">>],
      [class |-> "Context",
       lines |-> <<"Context: default", "Extension: s", "Priority: 1">>],
      [class |-> "str", lines |-> <<>>] }

ArchiveArgs == {None, "True", "False"}

VARIABLES
    self,       \* the CallFile's attributes
    given,      \* the filename and tempdir arguments __init__ was called with
    dirs,       \* the directories that exist on the local host
    fs,         \* the local file system: path -> file record
    rfs,        \* the remote file system: path -> file record
    op,         \* the method running ("none" between invocations)
    pc,         \* the position in it
    args,       \* the arguments of the invocation
    uid, gid,   \* remote_spool's (and spool's) local variables uid, gid
    branch,     \* the authentication branch of remote_spool being executed
    t_open,     \* transports connected and not closed
    sftp_open,  \* SFTP channels opened and not closed
    result,     \* the value returned (buildfile, contents)
    raised,     \* the exception the invocation raised, "none" when it returned
    raised_at,  \* the position at which it was raised
    calls,      \* invocations started so far
    fs_pre,     \* the local file system when the invocation started
    rfs_pre,    \* the remote file system when the invocation started
    dirs_pre,   \* the local directories when the invocation started
    log         \* the calls the invocation has made so far, in order

vars == <<self, given, dirs, fs, rfs, op, pc, args, uid, gid, branch, t_open,
          sftp_open, result, raised, raised_at, calls, fs_pre, rfs_pre, dirs_pre, log>>

\* ------------------------------------------------------------ construction

\* __init__ that falls back to mkstemp for each missing argument on its own.
CallFileInit_Mixed(call, action, archive, filename, tempdir, user, spool_dir) ==
    [call |-> call,
     action |-> action,
     archive |-> archive,
     user |-> user,
     spool_dir |-> PyOr(spool_dir, DEFAULT_SPOOL_DIR),
     filename |-> IF Truthy(filename) THEN filename ELSE MkstempName,
     tempdir |-> IF Truthy(tempdir) THEN tempdir ELSE MkstempDir]

\* CallFile.__init__
CallFileInit(call, action, archive, filename, tempdir, user, spool_dir) ==
    [call |-> call,
     action |-> action,
     archive |-> archive,
     user |-> user,
     spool_dir |-> PyOr(spool_dir, DEFAULT_SPOOL_DIR),
     filename |-> IF Truthy(filename) /\ Truthy(tempdir) THEN filename ELSE MkstempName,
     tempdir |-> IF Truthy(filename) /\ Truthy(tempdir) THEN tempdir ELSE MkstempDir]

\* Whether __init__ called mkstemp, which creates the (empty) file.
CallsMkstemp(filename, tempdir) == ~(Truthy(filename) /\ Truthy(tempdir))

EmptyFile == [exists |-> TRUE, content |-> <<>>, owner |-> ProcessOwner, mtime |-> "now"]

NoArgs == [time |-> None, uid |-> 0, gid |-> 0, passwd |-> None, pkeypath |-> None]

Init ==
    \E call \in CallArgs, action \in ActionArgs, archive \in ArchiveArgs,
       filename \in FileNameArgs, tempdir \in TempDirArgs, user \in UserArgs,
       spool_dir \in SpoolDirArgs, defaultExists \in BOOLEAN,
       old \in {NoFile, StaleFile} :
        /\ self = CallFileInit(call, action, archive, filename, tempdir, user, spool_dir)
        /\ given = [filename |-> filename, tempdir |-> tempdir]
        /\ dirs = {MkstempDir, "/work", "/spool"}
                    \cup (IF defaultExists THEN {DEFAULT_SPOOL_DIR} ELSE {})
        /\ fs = [p \in Paths |->
                    IF CallsMkstemp(filename, tempdir)
                    THEN IF p = <<MkstempDir, MkstempName>> THEN EmptyFile ELSE NoFile
                    ELSE IF p = <<tempdir, filename>> THEN old ELSE NoFile]
        /\ rfs = [p \in Paths |-> NoFile]
        /\ op = "none"
        /\ pc = "idle"
        /\ args = NoArgs
        /\ uid = 0
        /\ gid = 0
        /\ branch = "none"
        /\ t_open = 0
        /\ sftp_open = 0
        /\ result = <<>>
        /\ raised = "none"
        /\ raised_at = "none"
        /\ calls = 0
        /\ fs_pre = fs
        /\ rfs_pre = rfs
        /\ dirs_pre = dirs
        /\ log = <<>>

\* ------------------------------------------------- validation and rendering

\* Path(self.tempdir) / Path(self.filename)
TempPath == <<self.tempdir, self.filename>>

\* Path(self.spool_dir) / Path(self.filename)
SpoolPath == <<self.spool_dir, self.filename>>

\* Path(d).abspath().isdir()
IsDir(d) == d \in dirs

\* is_valid without the spool directory test.
is_valid_NoSpoolDirTest ==
    IF ~self.call.isCall THEN FALSE
    ELSE IF ~(self.action.class = "Action" \/ self.action.class = "Context") THEN FALSE
    ELSE IF ~self.call.valid THEN FALSE
    ELSE TRUE

\* CallFile.is_valid
is_valid ==
    IF ~self.call.isCall THEN FALSE
    ELSE IF ~(self.action.class = "Action" \/ self.action.class = "Context") THEN FALSE
    ELSE IF Truthy(self.spool_dir) /\ ~IsDir(self.spool_dir) THEN FALSE
    ELSE IF ~self.call.valid THEN FALSE
    ELSE TRUE

\* buildfile testing `self.archive is not None` instead of `self.archive`.
buildfile_ArchiveNotNone ==
    IF ~is_valid
    THEN [raised |-> "ValidationError", value |-> <<>>]
    ELSE [raised |-> "none",
          value |-> self.call.lines \o self.action.lines
                    \o (IF self.archive # None THEN <<"Archive: yes">> ELSE <<>>)]

\* CallFile.buildfile: the exception it raises ("none" when it returns) and
\* the list it returns.
buildfile ==
    IF ~is_valid
    THEN [raised |-> "ValidationError", value |-> <<>>]
    ELSE [raised |-> "none",
          value |-> self.call.lines \o self.action.lines
                    \o (IF Truthy(self.archive) THEN <<"Archive: yes">> ELSE <<>>)]

\* '\n'.join(lines): the lines with a "\n" between each two.
RECURSIVE Join(_)
Join(lines) ==
    IF Len(lines) = 0 THEN <<>>
    ELSE IF Len(lines) = 1 THEN <<lines[1]>>
    ELSE <<lines[1], "\n">> \o Join(Tail(lines))

\* CallFile.contents
contents ==
    LET b == buildfile
    IN  IF b.raised # "none" THEN b ELSE [raised |-> "none", value |-> Join(b.value)]


\* ------------------------------------------------------------- invocations

\* The caller starts a method: what every invocation sets.
Enter(method, a) ==
    /\ pc = "idle"
    /\ calls < MaxCalls
    /\ op' = method
    /\ args' = a
    /\ uid' = a.uid
    /\ gid' = a.gid
    /\ branch' = "none"
    /\ raised_at' = "none"
    /\ calls' = calls + 1
    /\ fs_pre' = fs
    /\ rfs_pre' = rfs
    /\ dirs_pre' = dirs
    /\ log' = <<>>
    /\ UNCHANGED <<self, given, dirs, t_open, sftp_open>>

\* An error that is recorded while the method stays where it is, so that
\* the step is made again.
Raise_Retry(exc) ==
    /\ raised' = exc
    /\ raised_at' = pc
    /\ pc' = pc

\* The invocation ends raising exc.
Raise(exc) ==
    /\ raised' = exc
    /\ raised_at' = pc
    /\ pc' = "done"

\* The step completes without raising.
NoRaise == UNCHANGED <<raised, raised_at>>

\* The step makes the call named c (which may complete or raise).
Calls(c) == log' = Append(log, c)

\* buildfile() called by the caller.
Buildfile ==
    /\ Enter("buildfile", NoArgs)
    /\ result' = buildfile.value
    /\ raised' = buildfile.raised
    /\ pc' = "done"
    /\ UNCHANGED <<fs, rfs>>

\* The contents property read by the caller.
Contents ==
    /\ Enter("contents", NoArgs)
    /\ result' = contents.value
    /\ raised' = contents.raised
    /\ pc' = "done"
    /\ UNCHANGED <<fs, rfs>>

\* writefile() called by the caller.
CallWritefile ==
    /\ Enter("writefile", NoArgs)
    /\ pc' = "open"
    /\ UNCHANGED <<fs, rfs, result, raised>>

\* spool(time) called by the caller.
CallSpool ==
    \E time \in TimeArgs :
        /\ Enter("spool", [NoArgs EXCEPT !.time = time])
        /\ pc' = "open"
        /\ UNCHANGED <<fs, rfs, result, raised>>

\* remote_spool(ipaddr, usr, uid, gid, passwd, pkeypath) called by the caller.
CallRemoteSpool ==
    \E u \in UidArgs, g \in GidArgs, passwd \in PasswdArgs, pkeypath \in PkeyArgs :
        /\ Enter("remote_spool",
                 [time |-> None, uid |-> u, gid |-> g, passwd |-> passwd,
                  pkeypath |-> pkeypath])
        /\ pc' = "open"
        /\ UNCHANGED <<fs, rfs, result, raised>>

\* The caller has the outcome and may call again.
Return ==
    /\ pc = "done"
    /\ pc' = "idle"
    /\ op' = "none"
    /\ args' = NoArgs
    /\ uid' = 0
    /\ gid' = 0
    /\ branch' = "none"
    /\ result' = <<>>
    /\ raised' = "none"
    /\ raised_at' = "none"
    /\ fs_pre' = fs
    /\ rfs_pre' = rfs
    /\ dirs_pre' = dirs
    /\ log' = <<>>
    /\ UNCHANGED <<self, given, dirs, fs, rfs, t_open, sftp_open, calls>>

\* ---------------------------------------------------------------- writefile

\* An open that creates the file if absent and keeps what a present one holds.
OpenForWrite_NoTruncate(f) ==
    IF f.exists THEN [f EXCEPT !.mtime = "now"] ELSE EmptyFile

\* open(path, 'w') on a file record: created if absent, truncated if present.
OpenForWrite(f) ==
    IF f.exists THEN [f EXCEPT !.content = <<>>, !.mtime = "now"] ELSE EmptyFile

\* f.write(text) on the file just opened, and the close at the end of the
\* with block: text is written from position 0, over what the file holds
\* there; what it holds beyond the text stays.
WriteText(f, text) ==
    [f EXCEPT !.content = text \o SubSeq(@, Len(text) + 1, Len(@)), !.mtime = "now"]

\* Where spool and remote_spool continue after self.writefile().
AfterWritefile == IF op = "writefile" THEN "done" ELSE "chown"

\* writefile, the with statement's open(..., 'w'): it runs before the body,
\* so before self.contents is evaluated.  The open may be refused (IOError).
WritefileOpen ==
    /\ pc = "open"
    /\ Calls("open")
    /\ \E ok \in BOOLEAN :
        IF ok
        THEN /\ fs' = [fs EXCEPT ![TempPath] = OpenForWrite(@)]
             /\ pc' = "write"
             /\ NoRaise
        ELSE /\ Raise("IOError")
             /\ UNCHANGED fs
    /\ UNCHANGED <<self, given, dirs, rfs, op, args, uid, gid, branch, t_open, sftp_open,
                   result, calls, fs_pre, rfs_pre, dirs_pre>>

\* writefile, the body f.write(self.contents): contents is evaluated first
\* and may raise ValidationError, which leaves the with block (closing f).
WritefileWrite ==
    /\ pc = "write"
    /\ IF contents.raised # "none"
       THEN /\ Raise(contents.raised)
            /\ Calls("contents")
            /\ UNCHANGED fs
       ELSE /\ fs' = [fs EXCEPT ![TempPath] = WriteText(@, contents.value)]
            /\ pc' = AfterWritefile
            /\ Calls("write")
            /\ NoRaise
    /\ UNCHANGED <<self, given, dirs, rfs, op, args, uid, gid, branch, t_open, sftp_open,
                   result, calls, fs_pre, rfs_pre, dirs_pre>>

\* -------------------------------------------------------------------- spool

\* chown that leaves the owner alone.
ChownFile_Skipped(f, u, g) == f

\* chown(path, uid, gid) on a file record.
ChownFile(f, u, g) == [f EXCEPT !.owner = <<u, g>>]

\* utime that leaves the file's times alone.
UtimeFile_Skipped(f, t) == f

\* utime(path, (t, t)) on a file record.
UtimeFile(f, t) == [f EXCEPT !.mtime = t]

\* The KeyError of getpwnam reaching the caller as it is.
UnknownUserError_Unwrapped == "KeyError"

\* `except KeyError: raise NoUserError`
UnknownUserError == "NoUserError"

\* Where spool and remote_spool continue after the `if self.user:` block.
AfterChown == IF op = "spool" THEN "utime" ELSE "passwd"

\* The `if self.user:` block of spool and of remote_spool: getpwnam raises
\* KeyError for an unknown user (NoUserError); chown may be refused by the
\* operating system (NoUserPermissionError).  uid and gid are assigned from
\* the password entry.
LocalChown ==
    /\ pc = "chown"
    /\ IF ~Truthy(self.user)
       THEN /\ pc' = AfterChown
            /\ UNCHANGED <<fs, uid, gid, raised, raised_at, log>>
       ELSE IF self.user \notin LocalUsers
       THEN /\ Raise(UnknownUserError)
            /\ Calls("getpwnam")
            /\ UNCHANGED <<fs, uid, gid>>
       ELSE /\ uid' = Passwd(self.user)[1]
            /\ gid' = Passwd(self.user)[2]
            /\ Calls("chown")
            /\ \E ok \in BOOLEAN :
                IF ok
                THEN /\ fs' = [fs EXCEPT ![TempPath] = ChownFile(@, uid', gid')]
                     /\ pc' = AfterChown
                     /\ NoRaise
                ELSE /\ Raise("NoUserPermissionError")
                     /\ UNCHANGED fs
    /\ UNCHANGED <<self, given, dirs, rfs, op, args, branch, t_open, sftp_open, result,
                   calls, fs_pre, rfs_pre, dirs_pre>>

\* The `if time:` block of spool: mktime(time.timetuple()) raises
\* AttributeError or OverflowError/ValueError, utime may raise os.error;
\* each of them is turned into InvalidTimeError.
SpoolUtime ==
    /\ pc = "utime"
    /\ IF ~Truthy(args.time)
       THEN /\ pc' = "move"
            /\ UNCHANGED <<fs, raised, raised_at, log>>
       ELSE IF ~HasTimetuple(args.time) \/ ~MktimeInRange(args.time)
       THEN /\ Raise("InvalidTimeError")
            /\ Calls("mktime")
            /\ UNCHANGED fs
       ELSE \E ok \in BOOLEAN :
                /\ Calls("utime")
                /\ IF ok
                   THEN /\ fs' = [fs EXCEPT ![TempPath] = UtimeFile(@, Mktime(args.time))]
                        /\ pc' = "move"
                        /\ NoRaise
                   ELSE /\ Raise("InvalidTimeError")
                        /\ UNCHANGED fs
    /\ UNCHANGED <<self, given, dirs, rfs, op, args, uid, gid, branch, t_open, sftp_open,
                   result, calls, fs_pre, rfs_pre, dirs_pre>>

\* A move that copies: dst takes src's file and src stays.
MoveFile_Copy(files, src, dst) == [files EXCEPT ![dst] = files[src]]

\* shutil.move(src, dst) within one file system (a rename): dst takes src's
\* file with its content, owner and times, and src is gone.
MoveFile(files, src, dst) == [files EXCEPT ![dst] = files[src], ![src] = NoFile]

\* The exception the except clause of the move raises.
SpoolMoveError_Unwrapped == "IOError"

\* `except IOError: raise NoSpoolPermissionError`
SpoolMoveError == "NoSpoolPermissionError"

\* The move of spool: it is refused by the operating system, or fails because
\* the spool directory is not there; the IOError is turned into
\* NoSpoolPermissionError.
SpoolMove ==
    /\ pc = "move"
    /\ Calls("move")
    /\ \E ok \in BOOLEAN :
        IF ok /\ IsDir(self.spool_dir)
        THEN /\ fs' = MoveFile(fs, TempPath, SpoolPath)
             /\ pc' = "done"
             /\ NoRaise
        ELSE /\ Raise(SpoolMoveError)
             /\ UNCHANGED fs
    /\ UNCHANGED <<self, given, dirs, rfs, op, args, uid, gid, branch, t_open, sftp_open,
                   result, calls, fs_pre, rfs_pre, dirs_pre>>

\* The host: the (empty) spool directory is removed by another process after
\* spool() has validated the descriptor and before it moves the file.
SpoolDirRemoved ==
    /\ op = "spool"
    /\ pc \in {"chown", "utime", "move"}
    /\ IsDir(self.spool_dir)
    /\ \A p \in Paths : p[1] = self.spool_dir => ~fs[p].exists
    /\ dirs' = dirs \ {self.spool_dir}
    /\ UNCHANGED <<self, given, fs, rfs, op, pc, args, uid, gid, branch, t_open, sftp_open,
                   result, raised, raised_at, calls, fs_pre, rfs_pre, dirs_pre, log>>

\* ------------------------------------------------------------- remote_spool

\* What the paramiko calls raise, by their documentation.  Opening the
\* transport, authenticating and opening the SFTP channel raise SSHException
\* (unable to connect, negotiation failed, authentication rejected, channel
\* refused).  The SFTP requests raise IOError (an SFTP status: permission
\* denied, no such file, failure) or SSHException (connection dropped).
\* Loading the key raises IOError (unreadable file) or SSHException
\* (unparsable key).
ConnectFailures == {"SSHException"}
SftpFailures == {"SSHException", "IOError"}
KeyFailures == {"SSHException", "IOError"}

\* The except clause of each branch: the password branch catches
\* paramiko.SSHException, the key branch (paramiko.SSHException, IOError).
Caught(b) == IF b = "password" THEN {"SSHException"} ELSE {"SSHException", "IOError"}

\* A paramiko call raises exc inside the try block of the current branch.
RaiseRemote(exc) == Raise(IF exc \in Caught(branch) THEN "ParamikoError" ELSE exc)

\* sftp.put on the remote file record: the remote file gets the local text.
RemotePut(f, text) ==
    IF f.exists
    THEN [f EXCEPT !.content = text, !.mtime = "now"]
    ELSE [exists |-> TRUE, content |-> text, owner |-> RemoteLoginOwner, mtime |-> "now"]

\* `if passwd:`
BeginPassword ==
    /\ pc = "passwd"
    /\ IF Truthy(args.passwd)
       THEN /\ branch' = "password"
            /\ pc' = "transport"
       ELSE /\ pc' = "pkey"
            /\ UNCHANGED branch
    /\ UNCHANGED <<self, given, dirs, fs, rfs, op, args, uid, gid, t_open, sftp_open,
                   result, raised, raised_at, calls, fs_pre, rfs_pre, dirs_pre, log>>

\* `if pkeypath:`, reached when the password branch was skipped or completed.
BeginKey ==
    /\ pc = "pkey"
    /\ IF Truthy(args.pkeypath)
       THEN /\ branch' = "key"
            /\ pc' = "loadkey"
       ELSE /\ pc' = "done"
            /\ UNCHANGED branch
    /\ UNCHANGED <<self, given, dirs, fs, rfs, op, args, uid, gid, t_open, sftp_open,
                   result, raised, raised_at, calls, fs_pre, rfs_pre, dirs_pre, log>>

\* paramiko.RSAKey.from_private_key_file(filename=pkeypath)
LoadKey ==
    /\ pc = "loadkey"
    /\ Calls("loadkey")
    /\ \/ /\ pc' = "transport"
          /\ NoRaise
       \/ \E exc \in KeyFailures : RaiseRemote(exc)
    /\ UNCHANGED <<self, given, dirs, fs, rfs, op, args, uid, gid, branch, t_open,
                   sftp_open, result, calls, fs_pre, rfs_pre, dirs_pre>>

\* t = paramiko.Transport(ipaddr, 22): the socket is connected.
OpenTransport ==
    /\ pc = "transport"
    /\ Calls("transport")
    /\ \/ /\ t_open' = t_open + 1
          /\ pc' = "connect"
          /\ NoRaise
       \/ /\ \E exc \in ConnectFailures : RaiseRemote(exc)
          /\ UNCHANGED t_open
    /\ UNCHANGED <<self, given, dirs, fs, rfs, op, args, uid, gid, branch, sftp_open,
                   result, calls, fs_pre, rfs_pre, dirs_pre>>

\* t.connect(username=usr, password=passwd) or t.connect(username=usr, pkey=pkey)
Authenticate ==
    /\ pc = "connect"
    /\ Calls("connect")
    /\ \/ /\ pc' = "sftp"
          /\ NoRaise
       \/ \E exc \in ConnectFailures : RaiseRemote(exc)
    /\ UNCHANGED <<self, given, dirs, fs, rfs, op, args, uid, gid, branch, t_open,
                   sftp_open, result, calls, fs_pre, rfs_pre, dirs_pre>>

\* sftp = paramiko.SFTPClient.from_transport(t)
OpenSftp ==
    /\ pc = "sftp"
    /\ Calls("sftp")
    /\ \/ /\ sftp_open' = sftp_open + 1
          /\ pc' = "put"
          /\ NoRaise
       \/ /\ \E exc \in ConnectFailures : RaiseRemote(exc)
          /\ UNCHANGED sftp_open
    /\ UNCHANGED <<self, given, dirs, fs, rfs, op, args, uid, gid, branch, t_open,
                   result, calls, fs_pre, rfs_pre, dirs_pre>>

\* An upload that removes the local file once it is sent.
LocalAfterPut_Removed(files, path) == [files EXCEPT ![path] = NoFile]

\* The local file system after sftp.put(path, ...): put reads the local
\* file and leaves it.
LocalAfterPut(files, path) == files

\* sftp.put(local temp path, the same path on the remote host)
SftpPut ==
    /\ pc = "put"
    /\ Calls("put")
    /\ \/ /\ rfs' = [rfs EXCEPT ![TempPath] = RemotePut(@, fs[TempPath].content)]
          /\ fs' = LocalAfterPut(fs, TempPath)
          /\ pc' = "rchown"
          /\ NoRaise
       \/ /\ \E exc \in SftpFailures : RaiseRemote(exc)
          /\ UNCHANGED <<fs, rfs>>
    /\ UNCHANGED <<self, given, dirs, op, args, uid, gid, branch, t_open, sftp_open,
                   result, calls, fs_pre, rfs_pre, dirs_pre>>

\* sftp.chown(remote temp path, uid, gid)
SftpChown ==
    /\ pc = "rchown"
    /\ Calls("rchown")
    /\ \/ /\ rfs' = [rfs EXCEPT ![TempPath] = ChownFile(@, uid, gid)]
          /\ pc' = "rename"
          /\ NoRaise
       \/ /\ \E exc \in SftpFailures : RaiseRemote(exc)
          /\ UNCHANGED rfs
    /\ UNCHANGED <<self, given, dirs, fs, op, args, uid, gid, branch, t_open, sftp_open,
                   result, calls, fs_pre, rfs_pre, dirs_pre>>

\* sftp.rename(remote temp path, remote spool path)
SftpRename ==
    /\ pc = "rename"
    /\ Calls("rename")
    /\ \/ /\ rfs' = MoveFile(rfs, TempPath, SpoolPath)
          /\ pc' = "close"
          /\ NoRaise
       \/ /\ \E exc \in SftpFailures : RaiseRemote(exc)
          /\ UNCHANGED rfs
    /\ UNCHANGED <<self, given, dirs, fs, op, args, uid, gid, branch, t_open, sftp_open,
                   result, calls, fs_pre, rfs_pre, dirs_pre>>

\* The two branches as alternatives (`elif pkeypath:`).
AfterClose_Exclusive == "done"

\* Where remote_spool continues after a branch has closed its session: the
\* password branch is followed by `if pkeypath:`, the key branch is the end.
AfterClose == IF branch = "password" THEN "pkey" ELSE "done"

\* sftp.close(); t.close(); c.close()
CloseSession ==
    /\ pc = "close"
    /\ Calls("close")
    /\ sftp_open' = sftp_open - 1
    /\ t_open' = t_open - 1
    /\ pc' = AfterClose
    /\ UNCHANGED <<self, given, dirs, fs, rfs, op, args, uid, gid, branch, result, raised,
                   raised_at, calls, fs_pre, rfs_pre, dirs_pre>>

\* ------------------------------------------------------------ specification

Next ==
    \/ Buildfile
    \/ Contents
    \/ CallWritefile
    \/ CallSpool
    \/ CallRemoteSpool
    \/ Return
    \/ WritefileOpen
    \/ WritefileWrite
    \/ LocalChown
    \/ SpoolUtime
    \/ SpoolMove
    \/ SpoolDirRemoved
    \/ BeginPassword
    \/ BeginKey
    \/ LoadKey
    \/ OpenTransport
    \/ Authenticate
    \/ OpenSftp
    \/ SftpPut
    \/ SftpChown
    \/ SftpRename
    \/ CloseSession

Spec == Init /\ [][Next]_vars


\* ------------------------------------------------------------------- claims

\* An invalid descriptor, in the words of the specification: the call is
\* not a valid Call, the action is neither an Action nor a Context, or the
\* spool directory is not an existing directory.
InvalidDescriptor ==
    \/ ~self.call.isCall
    \/ ~self.call.valid
    \/ self.action.class \notin {"Action", "Context"}
    \/ self.spool_dir \notin dirs

\* C1: when writefile() fails with ValidationError, the file at
\* tempdir/filename is as it was before the call: neither created nor
\* truncated nor modified.
C1_InvalidWritefileLeavesFile ==
    (op = "writefile" /\ pc = "done" /\ raised = "ValidationError")
        => fs[TempPath] = fs_pre[TempPath]

\* C2: for a valid descriptor buildfile() returns call.render(), then
\* action.render(), then the line 'Archive: yes' exactly when archive is
\* true, and nothing else.
C2_BuildfileRenders ==
    (op = "buildfile" /\ pc = "done" /\ ~InvalidDescriptor)
        => /\ raised = "none"
           /\ result = self.call.lines \o self.action.lines
                       \o (IF self.archive = "True" THEN <<"Archive: yes">> ELSE <<>>)

C2_Witness ==
    /\ op = "buildfile" /\ pc = "done" /\ ~InvalidDescriptor
    /\ self.archive = "True"
    /\ Len(result) = Len(self.call.lines) + Len(self.action.lines) + 1

\* C3: for an invalid descriptor buildfile() and contents raise
\* ValidationError, return no line, and write nothing to a file system.
C3_InvalidRaisesValidationError ==
    (op \in {"buildfile", "contents"} /\ pc = "done" /\ InvalidDescriptor)
        => /\ raised = "ValidationError"
           /\ result = <<>>
           /\ fs = fs_pre
           /\ rfs = rfs_pre

C3_Witness ==
    /\ op = "contents" /\ pc = "done"
    /\ self.call.isCall /\ self.call.valid /\ self.action.class = "Context"
    /\ self.spool_dir \notin dirs
    /\ raised = "ValidationError"

C5_RemoteOwnerIsArgument ==
    (op = "remote_spool" /\ pc = "rename")
        => rfs[TempPath].owner = <<args.uid, args.gid>>

\* C6: when remote_spool() has ended, returning or raising, no transport
\* and no SFTP channel is left open.
C6_SessionClosedOnExit ==
    (op = "remote_spool" /\ pc = "done") => (t_open = 0 /\ sftp_open = 0)

\* C7: when remote_spool() returns without raising, a file exists on the
\* remote host at spool_dir/filename.
C7_ReturnMeansSpooled ==
    (op = "remote_spool" /\ pc = "done" /\ raised = "none") => rfs[SpoolPath].exists

\* The positions of remote_spool at which a paramiko call is made.
TransportSteps == {"loadkey", "transport", "connect", "sftp", "put", "rchown", "rename"}

\* C8: a failure of a paramiko call in either branch of remote_spool()
\* reaches the caller as ParamikoError and as nothing else.
C8_TransportFailureIsParamikoError ==
    (op = "remote_spool" /\ pc = "done" /\ raised_at \in TransportSteps)
        => raised = "ParamikoError"

\* A time argument that was supplied and is no well-formed time.
Malformed(t) == t # None /\ ~(HasTimetuple(t) /\ MktimeInRange(t))

\* C9: with a malformed time argument spool() never reaches the move: the
\* file is not placed at spool_dir/filename and the call does not return
\* normally.
C9_MalformedTimeNeverMoves ==
    (op = "spool" /\ Malformed(args.time))
        => /\ pc # "move"
           /\ fs[SpoolPath] = fs_pre[SpoolPath]
           /\ pc = "done" => raised # "none"

\* C10: remote_spool() of a descriptor with a valid call and a recognized
\* action does not fail with ValidationError, whether or not spool_dir
\* exists on the local host.
C10_RemoteSpoolIgnoresLocalSpoolDir ==
    (op = "remote_spool" /\ pc = "done"
     /\ self.call.isCall /\ self.call.valid
     /\ self.action.class \in {"Action", "Context"})
        => raised # "ValidationError"


\* A descriptor whose call and action pass validation.
CallAndActionValid ==
    /\ self.call.isCall
    /\ self.call.valid
    /\ self.action.class \in {"Action", "Context"}

\* C11 as claimed: spool() fails with NoSpoolPermissionError when the move
\* is denied and also when the spool directory is missing at the call.
C11_MissingDirIsNoSpoolPermission ==
    (op = "spool" /\ pc = "done" /\ raised_at # "open" /\ CallAndActionValid
     /\ (raised_at = "move" \/ self.spool_dir \notin dirs_pre))
        => /\ raised = "NoSpoolPermissionError"
           /\ ~fs[SpoolPath].exists

\* C11: a denied move ends spool() with NoSpoolPermissionError; a spool
\* directory that is missing when spool() is called ends it in writefile(),
\* with ValidationError once the temporary file was opened; in both cases
\* spool_dir/filename is as it was before the call.
C11_DeniedMoveOrInvalid ==
    (op = "spool" /\ pc = "done")
        => /\ raised_at = "move"
              => (raised = "NoSpoolPermissionError" /\ fs[SpoolPath] = fs_pre[SpoolPath])
           /\ self.spool_dir \notin dirs_pre
              => /\ raised_at \in {"open", "write"}
                 /\ raised_at = "write" => raised = "ValidationError"
                 /\ fs[SpoolPath] = fs_pre[SpoolPath]

C11_Witness ==
    /\ op = "spool" /\ pc = "done"
    /\ self.call.valid /\ self.action.class = "Action"
    /\ self.spool_dir \notin dirs_pre
    /\ raised = "ValidationError"
    /\ ~fs[SpoolPath].exists


\* The text writefile() writes for a descriptor that passes validation.
RenderedText ==
    Join(self.call.lines \o self.action.lines
         \o (IF Truthy(self.archive) THEN <<"Archive: yes">> ELSE <<>>))

\* C12: with a user unknown to the local host, spool() and remote_spool(),
\* once they have written the file, stop at the ownership step with
\* NoUserError: the file stays at tempdir/filename with the rendered text,
\* nothing is placed in the spool directory and nothing is uploaded.
C12_UnknownUserStopsAfterWrite ==
    (op \in {"spool", "remote_spool"}
     /\ Truthy(self.user) /\ self.user \notin LocalUsers
     /\ pc \notin {"open", "write"} /\ raised_at \notin {"open", "write"})
        => /\ pc \in {"chown", "done"}
           /\ pc = "done" => (raised = "NoUserError" /\ raised_at = "chown")
           /\ fs[TempPath].exists
           /\ fs[TempPath].content = RenderedText
           /\ fs[SpoolPath] = fs_pre[SpoolPath]
           /\ rfs = rfs_pre

C12_Witness ==
    /\ op = "remote_spool" /\ pc = "done"
    /\ self.user = "ghost"
    /\ args.passwd = "secret"
    /\ raised = "NoUserError"
    /\ fs[TempPath].content = RenderedText
    /\ ~rfs[TempPath].exists /\ ~rfs[SpoolPath].exists


\* C13: when spool() of a descriptor without user, called without time,
\* returns, the file is at spool_dir/filename with the rendered text and no
\* file is left at tempdir/filename.
C13_SpoolMovesFile ==
    (op = "spool" /\ pc = "done" /\ raised = "none"
     /\ ~Truthy(self.user) /\ args.time = None)
        => /\ fs[SpoolPath].exists
           /\ fs[SpoolPath].content = RenderedText
           /\ ~fs[TempPath].exists

C13_Witness ==
    /\ op = "spool" /\ pc = "done" /\ raised = "none"
    /\ self.user = None /\ args.time = None
    /\ self.archive = "True"
    /\ fs[SpoolPath].content = RenderedText
    /\ ~fs[TempPath].exists


\* C14: after writefile() has returned, the file at tempdir/filename holds
\* exactly the rendered text, whatever was at that path before (nothing, an
\* empty file, other and longer text).
C14_WritefileRoundTrip ==
    (op = "writefile" /\ pc = "done" /\ raised = "none")
        => /\ fs[TempPath].exists
           /\ fs[TempPath].content = RenderedText
           /\ fs[TempPath].content = contents.value

C14_Witness ==
    /\ op = "writefile" /\ pc = "done" /\ raised = "none"
    /\ fs_pre[TempPath] = StaleFile
    /\ Len(RenderedText) < Len(StaleFile.content)
    /\ fs[TempPath].content = RenderedText


\* C15: once remote_spool() has written the file, the local file stays at
\* tempdir/filename with the rendered text through every later step and in
\* every outcome, and nothing is put in the local spool directory.
C15_RemoteSpoolKeepsLocalFile ==
    (op = "remote_spool"
     /\ pc \notin {"open", "write"} /\ raised_at \notin {"open", "write"})
        => /\ fs[TempPath].exists
           /\ fs[TempPath].content = RenderedText
           /\ fs[SpoolPath] = fs_pre[SpoolPath]

C15_Witness ==
    /\ op = "remote_spool" /\ pc = "done" /\ raised = "none"
    /\ rfs[SpoolPath].exists
    /\ fs[TempPath].exists
    /\ fs[TempPath].content = RenderedText


\* How often the call c occurs in the log.
Occurrences(c) == Cardinality({i \in 1..Len(log) : log[i] = c})

\* The position of the method at which the logged call c is made.
PositionOf(c) ==
    IF c = "getpwnam" THEN "chown"
    ELSE IF c = "mktime" THEN "utime"
    ELSE IF c = "contents" THEN "write"
    ELSE c

\* The steps the claim names: materialize, local chown, utime, move, remote
\* upload, remote chown and remote rename.
LocalSteps == {"open", "write", "chown", "utime", "move"}
RemoteSteps == {"put", "rchown", "rename"}

\* An error ends the invocation: the call that raised is the last one made.
ErrorIsTerminal ==
    raised # "none"
        => /\ pc = "done"
           /\ log # <<>>
           /\ PositionOf(log[Len(log)]) = raised_at

\* The authentication branches of remote_spool entered so far.
BranchesEntered ==
    IF branch = "none" THEN 0
    ELSE IF branch = "key" /\ Truthy(args.passwd) THEN 2
    ELSE 1

\* C16 as claimed: in one invocation of spool() or remote_spool() every
\* step is made at most once, and an error is terminal.
C16_EveryStepAtMostOnce ==
    op \in {"spool", "remote_spool"}
        => /\ \A c \in LocalSteps \cup RemoteSteps : Occurrences(c) <= 1
           /\ ErrorIsTerminal

\* C16: in one invocation the local steps are made at most once and the
\* remote steps at most once in each authentication branch entered; an error
\* is terminal, so a password branch that failed is not followed by the key
\* branch.
C16_NoRetryErrorTerminal ==
    op \in {"spool", "remote_spool"}
        => /\ \A c \in LocalSteps : Occurrences(c) <= 1
           /\ \A c \in RemoteSteps : Occurrences(c) <= BranchesEntered
           /\ ErrorIsTerminal
           /\ (raised # "none" /\ branch = "password") => Occurrences("loadkey") = 0

C16_Witness ==
    /\ op = "remote_spool" /\ pc = "done"
    /\ args.passwd = "secret" /\ args.pkeypath = "/root/.ssh/id_rsa"
    /\ branch = "password"
    /\ raised = "ParamikoError" /\ raised_at = "connect"
    /\ log = <<"open", "write", "transport", "connect">>


\* The password branch was entered: a transport was opened before any key
\* was loaded.  The key branch was entered: the key was loaded.
PasswordBranchRan ==
    \E i \in 1..Len(log) : log[i] = "transport" /\ \A j \in 1..i : log[j] # "loadkey"
KeyBranchRan == Occurrences("loadkey") > 0

\* The calls of one branch that completes, after its first one.
BranchCalls == <<"transport", "connect", "sftp", "put", "rchown", "rename", "close">>

\* C17: when remote_spool() has ended after reaching the authentication
\* branches, the password branch ran iff passwd is set, the key branch ran
\* iff pkeypath is set and the password branch did not raise, and with both
\* set and no error both ran in full, the password branch first.
C17_BranchesAreIndependent ==
    (op = "remote_spool" /\ pc = "done" /\ raised_at \notin {"open", "write", "chown"})
        => /\ PasswordBranchRan <=> Truthy(args.passwd)
           /\ KeyBranchRan <=> (Truthy(args.pkeypath)
                                /\ ~(branch = "password" /\ raised # "none"))
           /\ (Truthy(args.passwd) /\ Truthy(args.pkeypath) /\ raised = "none")
                => /\ \A c \in RemoteSteps : Occurrences(c) = 2
                   /\ \E pre \in {<<"open", "write">>, <<"open", "write", "chown">>} :
                        log = pre \o BranchCalls \o <<"loadkey">> \o BranchCalls

C17_Witness ==
    /\ op = "remote_spool" /\ pc = "done" /\ raised = "none"
    /\ args.passwd = "secret" /\ args.pkeypath = "/root/.ssh/id_rsa"
    /\ Occurrences("put") = 2 /\ Occurrences("rename") = 2
    /\ rfs[SpoolPath].exists


\* A rename of the running or of an earlier branch has succeeded.
RenameDone ==
    \E i \in 1..Len(log) : log[i] = "rename" /\ (i < Len(log) \/ pc = "close")

\* C18: in remote_spool() each sftp call follows the one before it in the
\* order put, chown, rename, close; the file at the remote spool path
\* changes only by a rename that succeeded, and whenever it has changed it
\* is there with the owner the remote chown gave it.
C18_RemoteFilePreparedBeforeRename ==
    op = "remote_spool"
        => /\ \A i \in 1..Len(log) :
                /\ log[i] = "rchown" => (i > 1 /\ log[i - 1] = "put")
                /\ log[i] = "rename" => (i > 1 /\ log[i - 1] = "rchown")
                /\ log[i] = "close" => (i > 1 /\ log[i - 1] = "rename")
           /\ rfs[SpoolPath] # rfs_pre[SpoolPath]
                => /\ RenameDone
                   /\ rfs[SpoolPath].exists
                   /\ rfs[SpoolPath].owner = <<uid, gid>>
                   /\ rfs[SpoolPath].content = fs[TempPath].content

C18_Witness ==
    /\ op = "remote_spool" /\ pc = "close" /\ branch = "password"
    /\ ~rfs_pre[SpoolPath].exists
    /\ rfs[SpoolPath].exists
    /\ rfs[SpoolPath].owner = <<uid, gid>>
    /\ ~rfs[TempPath].exists


\* Both the filename and the tempdir argument of __init__ were set.
BothGiven == Truthy(given.filename) /\ Truthy(given.tempdir)

\* C19: the object has the caller's filename and tempdir when both were
\* given; otherwise both are the name and the directory of the file mkstemp
\* made, which exists and is empty until the first method call; the path
\* is never one part given and one part generated.
C19_PathAllGivenOrAllGenerated ==
    /\ BothGiven => TempPath = <<given.tempdir, given.filename>>
    /\ ~BothGiven => /\ TempPath = <<MkstempDir, MkstempName>>
                     /\ calls = 0 => fs[TempPath] = EmptyFile
    /\ (self.filename = given.filename) <=> (self.tempdir = given.tempdir)

C19_Witness ==
    /\ given.filename = "my.call" /\ given.tempdir = None
    /\ TempPath = <<MkstempDir, MkstempName>>
    /\ op = "writefile" /\ pc = "done" /\ raised = "none"
    /\ fs_pre[TempPath] = EmptyFile
    /\ fs[TempPath].content = RenderedText

====
